---- MODULE Spec2Model ----
(***************************************************************************)
(* State-machine model of the 2048 session controller in                   *)
(* src/src/app/page.tsx (component Game2048) and of its pure helpers       *)
(* (moveLine, moveBoard, addRandomTile, isGameWon, isGameOver).            *)
(*                                                                         *)
(* An empty cell (null in the source) is the value Null.  Rows, columns    *)
(* and the undo stack are sequences, so index k of the source is index     *)
(* k + 1 here.  Math.random() is a draw in tenths: the draw n stands for   *)
(* the real number n / 10.                                                 *)
(***************************************************************************)
EXTENDS Integers, Sequences, FiniteSets, TLC

\* ------------------------------------------------------------------------
\* Program constants (page.tsx:28-37)
\* ------------------------------------------------------------------------
GRID_SIZE == 4
WINNING_NUMBER == 2048
UNDO_UNLOCK_THRESHOLD == 128
SWAP_UNLOCK_THRESHOLD == 256
DELETE_UNLOCK_THRESHOLD == 512
MAX_UNDO_COUNT == 3
MAX_SWAP_COUNT == 2
MAX_DELETE_COUNT == 1
\* the empty cell, `null` of type GameBoard (page.tsx:15)
Null == 0
\* undoStack keeps prev.slice(-4) plus the new snapshot (page.tsx:326)
UNDO_KEEP == 4
\* denominator of a random draw: Math.random() is n / RAND_DEN, n in 0..RAND_DEN-1
RAND_DEN == 10
\* Math.random() < 0.9 (page.tsx:114), in tenths
TWO_BELOW == 9
\* TUTORIAL_STEPS.length (page.tsx:40-68)
TUTORIAL_LEN == 6

Idx == 1..GRID_SIZE
Directions == {"up", "down", "left", "right"}

\* ------------------------------------------------------------------------
\* Pure helpers
\* ------------------------------------------------------------------------
Reverse(s) == [k \in 1..Len(s) |-> s[Len(s) + 1 - k]]

\* arraysEqual (page.tsx:71-73)
arraysEqual(arr1, arr2) ==
    /\ Len(arr1) = Len(arr2)
    /\ \A idx \in 1..Len(arr1) : arr1[idx] = arr2[idx]

\* initializeBoard (page.tsx:94-96)
initializeBoard == [row \in Idx |-> [col \in Idx |-> Null]]

\* the row-major list of empty cells built by addRandomTile (page.tsx:100-108)
RECURSIVE emptyCellsFrom(_, _)
emptyCellsFrom(board, n) ==
    IF n > GRID_SIZE * GRID_SIZE THEN <<>>
    ELSE LET row == ((n - 1) \div GRID_SIZE) + 1
             col == ((n - 1) % GRID_SIZE) + 1
         IN  (IF board[row][col] = Null THEN << <<row, col>> >> ELSE <<>>)
                 \o emptyCellsFrom(board, n + 1)

emptyCells(board) == emptyCellsFrom(board, 1)

\* addRandomTile drawing its cell among all cells, not only the empty ones
addRandomTileAnyCell(board, r1, r2) ==
    LET cells == [n \in 1..(GRID_SIZE * GRID_SIZE) |->
                     <<((n - 1) \div GRID_SIZE) + 1, ((n - 1) % GRID_SIZE) + 1>>]
    IN  IF Len(emptyCells(board)) = 0 THEN board
        ELSE LET randomCell  == cells[((r1 * Len(cells)) \div RAND_DEN) + 1]
                 randomValue == IF r2 < TWO_BELOW THEN 2 ELSE 4
             IN  [board EXCEPT ![randomCell[1]][randomCell[2]] = randomValue]

\* addRandomTile (page.tsx:99-118); r1 and r2 are the two Math.random() draws
addRandomTile(board, r1, r2) ==
    LET cells == emptyCells(board)
    IN  IF Len(cells) = 0 THEN board
        ELSE LET randomCell  == cells[((r1 * Len(cells)) \div RAND_DEN) + 1]
                 randomValue == IF r2 < TWO_BELOW THEN 2 ELSE 4
             IN  [board EXCEPT ![randomCell[1]][randomCell[2]] = randomValue]

\* line.filter(cell => cell !== null) (page.tsx:123)
filteredLine(line) == SelectSeq(line, LAMBDA cell : cell # Null)

\* the merge loop stepping by one after a merge, so that a merged pair's
\* second tile is looked at again
RECURSIVE mergeLoopNoSkip(_, _)
mergeLoopNoSkip(f, i) ==
    IF i > Len(f) THEN [newLine |-> <<>>, score |-> 0]
    ELSE IF i < Len(f) /\ f[i] = f[i + 1]
         THEN LET rest == mergeLoopNoSkip(f, i + 1)
              IN  [newLine |-> <<f[i] * 2>> \o rest.newLine,
                   score   |-> f[i] * 2 + rest.score]
         ELSE LET rest == mergeLoopNoSkip(f, i + 1)
              IN  [newLine |-> <<f[i]>> \o rest.newLine, score |-> rest.score]

\* the merge loop adding one tile, not the doubled value, to the score
RECURSIVE mergeLoopScoresOnce(_, _)
mergeLoopScoresOnce(f, i) ==
    IF i > Len(f) THEN [newLine |-> <<>>, score |-> 0]
    ELSE IF i < Len(f) /\ f[i] = f[i + 1]
         THEN LET rest == mergeLoopScoresOnce(f, i + 2)
              IN  [newLine |-> <<f[i] * 2>> \o rest.newLine,
                   score   |-> f[i] + rest.score]
         ELSE LET rest == mergeLoopScoresOnce(f, i + 1)
              IN  [newLine |-> <<f[i]>> \o rest.newLine, score |-> rest.score]

\* the merge loop writing the sum of three tiles for a merged pair
RECURSIVE mergeLoopTriples(_, _)
mergeLoopTriples(f, i) ==
    IF i > Len(f) THEN [newLine |-> <<>>, score |-> 0]
    ELSE IF i < Len(f) /\ f[i] = f[i + 1]
         THEN LET rest == mergeLoopTriples(f, i + 2)
              IN  [newLine |-> <<f[i] * 3>> \o rest.newLine,
                   score   |-> f[i] * 2 + rest.score]
         ELSE LET rest == mergeLoopTriples(f, i + 1)
              IN  [newLine |-> <<f[i]>> \o rest.newLine, score |-> rest.score]

\* the merge loop of moveLine from index i on (page.tsx:128-139)
RECURSIVE mergeLoop(_, _)
mergeLoop(f, i) ==
    IF i > Len(f) THEN [newLine |-> <<>>, score |-> 0]
    ELSE IF i < Len(f) /\ f[i] = f[i + 1]
         THEN LET rest == mergeLoop(f, i + 2)
              IN  [newLine |-> <<f[i] * 2>> \o rest.newLine,
                   score   |-> f[i] * 2 + rest.score]
         ELSE LET rest == mergeLoop(f, i + 1)
              IN  [newLine |-> <<f[i]>> \o rest.newLine, score |-> rest.score]

\* while (newLine.length < GRID_SIZE) newLine.push(null) (page.tsx:142-144)
fillNulls(newLine) == newLine \o [k \in 1..(GRID_SIZE - Len(newLine)) |-> Null]

\* moveLine (page.tsx:121-147)
moveLine(line) ==
    LET m == mergeLoop(filteredLine(line), 1)
    IN  [newLine |-> fillNulls(m.newLine), score |-> m.score]

column(board, col) == [row \in 1..Len(board) |-> board[row][col]]

\* the line moveBoard resolves for index k, oriented toward the destination
\* edge (page.tsx:157, 166, 176, 188)
orientedLine(board, direction, k) ==
    CASE direction = "left"  -> board[k]
      [] direction = "right" -> Reverse(board[k])
      [] direction = "up"    -> column(board, k)
      [] direction = "down"  -> Reverse(column(board, k))

\* the resolved line written back to the grid (page.tsx:158, 168, 179, 190)
writtenLine(board, direction, k) ==
    LET newLine == moveLine(orientedLine(board, direction, k)).newLine
    IN  IF direction \in {"right", "down"} THEN Reverse(newLine) ELSE newLine

\* originalLine comparing a downward move with the reversed column
originalLineReversedDown(board, direction, k) ==
    IF direction \in {"left", "right"} THEN board[k]
    ELSE IF direction = "down" THEN Reverse(column(board, k))
    ELSE column(board, k)

\* the line the written line is compared with (page.tsx:160, 170, 182, 195)
originalLine(board, direction, k) ==
    IF direction \in {"left", "right"} THEN board[k] ELSE column(board, k)

RECURSIVE sumScores(_, _, _)
sumScores(board, direction, k) ==
    IF k > GRID_SIZE THEN 0
    ELSE moveLine(orientedLine(board, direction, k)).score
            + sumScores(board, direction, k + 1)

\* moveBoard (page.tsx:150-202)
moveBoard(board, direction) ==
    [newBoard |->
        IF direction \in {"left", "right"}
        THEN [row \in Idx |-> writtenLine(board, direction, row)]
        ELSE [row \in Idx |-> [col \in Idx |-> writtenLine(board, direction, col)[row]]],
     score |-> sumScores(board, direction, 1),
     moved |-> \E k \in Idx :
                  ~arraysEqual(writtenLine(board, direction, k),
                               originalLine(board, direction, k))]

\* isGameWon (page.tsx:206-215)
isGameWon(board) ==
    \E row \in Idx, col \in Idx : board[row][col] = WINNING_NUMBER

\* isGameOver without the check of the bottom neighbour
isGameOverRightOnly(board) ==
    /\ \A row \in Idx, col \in Idx : board[row][col] # Null
    /\ \A row \in Idx, col \in Idx :
          ~(col < GRID_SIZE /\ board[row][col + 1] = board[row][col])

\* A loss check that looks at the empty cells only and never at the
\* neighbouring pairs.
isGameOverFullOnly(board) ==
    \A row \in Idx, col \in Idx : board[row][col] # Null

\* isGameOver (page.tsx:218-244)
isGameOver(board) ==
    /\ \A row \in Idx, col \in Idx : board[row][col] # Null
    /\ \A row \in Idx, col \in Idx :
          /\ ~(col < GRID_SIZE /\ board[row][col + 1] = board[row][col])
          /\ ~(row < GRID_SIZE /\ board[row + 1][col] = board[row][col])


\* ------------------------------------------------------------------------
\* Session state: the useState cells of Game2048 (page.tsx:277-296), the
\* hasInitialized ref (page.tsx:513), the two localStorage keys and the
\* pending setTimeout of handleKeyPress (page.tsx:503)
\* ------------------------------------------------------------------------
VARIABLES
    board, score, bestScore, gameWon, gameOver, showWelcome, isProcessingMove,
    showTutorial, tutorialStep, hasSeenTutorial,
    powerupMode, selectedTiles, undoStack, undoCount, swapCount, deleteCount,
    hasInitialized, savedBestScore, savedTutorial, pendingTimers, mounted,
    \* history of the run: the last user event, the state it was delivered in,
    \* the {board, score} one event earlier, and the number of events so far
    last, pre, pre2, steps,
    \* the pure-function harness: the function applied, its input, its output
    fnOp, fnIn, fnOut

progVars == <<board, score, bestScore, gameWon, gameOver, showWelcome,
              isProcessingMove, showTutorial, tutorialStep, hasSeenTutorial,
              powerupMode, selectedTiles, undoStack, undoCount, swapCount,
              deleteCount, hasInitialized, savedBestScore, savedTutorial,
              pendingTimers, mounted>>
histVars == <<last, pre, pre2, steps>>
fnVars   == <<fnOp, fnIn, fnOut>>
vars     == <<progVars, histVars, fnVars>>

\* the current program state as one record
Cur ==
    [board |-> board, score |-> score, bestScore |-> bestScore,
     gameWon |-> gameWon, gameOver |-> gameOver, showWelcome |-> showWelcome,
     isProcessingMove |-> isProcessingMove, showTutorial |-> showTutorial,
     tutorialStep |-> tutorialStep, hasSeenTutorial |-> hasSeenTutorial,
     powerupMode |-> powerupMode, selectedTiles |-> selectedTiles,
     undoStack |-> undoStack, undoCount |-> undoCount, swapCount |-> swapCount,
     deleteCount |-> deleteCount, hasInitialized |-> hasInitialized,
     savedBestScore |-> savedBestScore, savedTutorial |-> savedTutorial,
     pendingTimers |-> pendingTimers, mounted |-> mounted]

\* the array of rows of cells that setBoard stores (page.tsx:277), with the
\* lengths the handler gave it
RECURSIVE cellsUpTo(_, _)
cellsUpTo(line, n) ==
    IF n = 0 THEN <<>> ELSE Append(cellsUpTo(line, n - 1), line[n])

RECURSIVE rowsUpTo(_, _)
rowsUpTo(b, n) ==
    IF n = 0 THEN <<>> ELSE Append(rowsUpTo(b, n - 1), cellsUpTo(b[n], Len(b[n])))

boardArray(b) == rowsUpTo(b, Len(b))

\* the program state becomes the record n
Commit(n) ==
    /\ board' = boardArray(n.board) /\ score' = n.score /\ bestScore' = n.bestScore
    /\ gameWon' = n.gameWon /\ gameOver' = n.gameOver
    /\ showWelcome' = n.showWelcome /\ isProcessingMove' = n.isProcessingMove
    /\ showTutorial' = n.showTutorial /\ tutorialStep' = n.tutorialStep
    /\ hasSeenTutorial' = n.hasSeenTutorial
    /\ powerupMode' = n.powerupMode /\ selectedTiles' = n.selectedTiles
    /\ undoStack' = n.undoStack /\ undoCount' = n.undoCount
    /\ swapCount' = n.swapCount /\ deleteCount' = n.deleteCount
    /\ hasInitialized' = n.hasInitialized
    /\ savedBestScore' = n.savedBestScore /\ savedTutorial' = n.savedTutorial
    /\ pendingTimers' = n.pendingTimers /\ mounted' = n.mounted

\* the useState initial values (page.tsx:277-296); nothing is stored yet
\* unless sb/st say so
Constructed(sb, st) ==
    [board |-> initializeBoard, score |-> 0, bestScore |-> 0,
     gameWon |-> FALSE, gameOver |-> FALSE, showWelcome |-> FALSE,
     isProcessingMove |-> FALSE, showTutorial |-> FALSE, tutorialStep |-> 0,
     hasSeenTutorial |-> FALSE, powerupMode |-> "none", selectedTiles |-> <<>>,
     undoStack |-> <<>>, undoCount |-> 2, swapCount |-> 1, deleteCount |-> 0,
     hasInitialized |-> FALSE, savedBestScore |-> sb, savedTutorial |-> st,
     pendingTimers |-> 0, mounted |-> FALSE]

\* lastStates keeping one state too many: prev.slice(-5)
lastStatesKeepFive(prev) ==
    IF Len(prev) <= UNDO_KEEP + 1 THEN prev
    ELSE SubSeq(prev, Len(prev) - UNDO_KEEP, Len(prev))

\* [...prev.slice(-4), { board, score }] (page.tsx:326, 406, 427)
lastStates(prev) ==
    IF Len(prev) <= UNDO_KEEP THEN prev
    ELSE SubSeq(prev, Len(prev) - UNDO_KEEP + 1, Len(prev))

pushUndo(prev, b, sc) == Append(lastStates(prev), [board |-> b, score |-> sc])

\* unlockUndo without its cap
unlockUndoUncapped(count, moveScore) ==
    IF moveScore >= UNDO_UNLOCK_THRESHOLD THEN count + 1 ELSE count

\* the powerup unlocks of processMove (page.tsx:337-345)
unlockUndo(count, moveScore) ==
    IF moveScore >= UNDO_UNLOCK_THRESHOLD /\ count < MAX_UNDO_COUNT
    THEN (IF count + 1 < MAX_UNDO_COUNT THEN count + 1 ELSE MAX_UNDO_COUNT)
    ELSE count

unlockSwap(count, moveScore) ==
    IF moveScore >= SWAP_UNLOCK_THRESHOLD /\ count < MAX_SWAP_COUNT
    THEN (IF count + 1 < MAX_SWAP_COUNT THEN count + 1 ELSE MAX_SWAP_COUNT)
    ELSE count

unlockDelete(count, moveScore) ==
    IF moveScore >= DELETE_UNLOCK_THRESHOLD /\ count < MAX_DELETE_COUNT
    THEN (IF count + 1 < MAX_DELETE_COUNT THEN count + 1 ELSE MAX_DELETE_COUNT)
    ELSE count

\* processMove spawning the new tile into the grid as it was before the move
processMoveSpawnsOnOld(s, direction, d) ==
    LET m  == moveBoard(s.board, direction)
        s1 == [s EXCEPT !.undoStack = pushUndo(s.undoStack, s.board, s.score)]
        boardWithNewTile == addRandomTile(s.board, d[1], d[2])
    IN  IF ~m.moved THEN s1
        ELSE [s1 EXCEPT
                !.board       = boardWithNewTile,
                !.score       = s.score + m.score,
                !.undoCount   = unlockUndo(s.undoCount, m.score),
                !.swapCount   = unlockSwap(s.swapCount, m.score),
                !.deleteCount = unlockDelete(s.deleteCount, m.score),
                !.gameWon     = IF isGameWon(boardWithNewTile) /\ ~s.gameWon
                                THEN TRUE ELSE s.gameWon,
                !.gameOver    = IF isGameOver(boardWithNewTile)
                                THEN TRUE ELSE s.gameOver]

\* processMove testing the unlock thresholds against the cumulative score
processMoveCumulative(s, direction, d) ==
    LET m  == moveBoard(s.board, direction)
        s1 == [s EXCEPT !.undoStack = pushUndo(s.undoStack, s.board, s.score)]
        boardWithNewTile == addRandomTile(m.newBoard, d[1], d[2])
    IN  IF ~m.moved THEN s1
        ELSE [s1 EXCEPT
                !.board       = boardWithNewTile,
                !.score       = s.score + m.score,
                !.undoCount   = unlockUndo(s.undoCount, s.score + m.score),
                !.swapCount   = unlockSwap(s.swapCount, s.score + m.score),
                !.deleteCount = unlockDelete(s.deleteCount, s.score + m.score),
                !.gameWon     = IF isGameWon(boardWithNewTile) /\ ~s.gameWon
                                THEN TRUE ELSE s.gameWon,
                !.gameOver    = IF isGameOver(boardWithNewTile)
                                THEN TRUE ELSE s.gameOver]

\* processMove evaluating the terminal flags on the grid before the spawn
processMoveFlagsBeforeSpawn(s, direction, d) ==
    LET m  == moveBoard(s.board, direction)
        s1 == [s EXCEPT !.undoStack = pushUndo(s.undoStack, s.board, s.score)]
        boardWithNewTile == addRandomTile(m.newBoard, d[1], d[2])
    IN  IF ~m.moved THEN s1
        ELSE [s1 EXCEPT
                !.board       = boardWithNewTile,
                !.score       = s.score + m.score,
                !.undoCount   = unlockUndo(s.undoCount, m.score),
                !.swapCount   = unlockSwap(s.swapCount, m.score),
                !.deleteCount = unlockDelete(s.deleteCount, m.score),
                !.gameWon     = IF isGameWon(m.newBoard) /\ ~s.gameWon
                                THEN TRUE ELSE s.gameWon,
                !.gameOver    = IF isGameOver(m.newBoard)
                                THEN TRUE ELSE s.gameOver]

\* processMove (page.tsx:324-356); d is a pair of random draws
processMove(s, direction, d) ==
    LET m  == moveBoard(s.board, direction)
        s1 == [s EXCEPT !.undoStack = pushUndo(s.undoStack, s.board, s.score)]
        boardWithNewTile == addRandomTile(m.newBoard, d[1], d[2])
    IN  IF ~m.moved THEN s1
        ELSE [s1 EXCEPT
                !.board       = boardWithNewTile,
                !.score       = s.score + m.score,
                !.undoCount   = unlockUndo(s.undoCount, m.score),
                !.swapCount   = unlockSwap(s.swapCount, m.score),
                !.deleteCount = unlockDelete(s.deleteCount, m.score),
                !.gameWon     = IF isGameWon(boardWithNewTile) /\ ~s.gameWon
                                THEN TRUE ELSE s.gameWon,
                !.gameOver    = IF isGameOver(boardWithNewTile)
                                THEN TRUE ELSE s.gameOver]

\* startNewGame without the reset of the three counters
startNewGameKeepsCounts(s, d1, d2) ==
    [s EXCEPT
        !.board = addRandomTile(addRandomTile(initializeBoard, d1[1], d1[2]),
                                d2[1], d2[2]),
        !.score = 0, !.gameWon = FALSE, !.gameOver = FALSE,
        !.showWelcome = FALSE, !.powerupMode = "none", !.selectedTiles = <<>>,
        !.undoStack = <<>>]

\* startNewGame (page.tsx:359-374); d1, d2 are the draws of the two tiles
startNewGame(s, d1, d2) ==
    [s EXCEPT
        !.board = addRandomTile(addRandomTile(initializeBoard, d1[1], d1[2]),
                                d2[1], d2[2]),
        !.score = 0, !.gameWon = FALSE, !.gameOver = FALSE,
        !.showWelcome = FALSE, !.powerupMode = "none", !.selectedTiles = <<>>,
        !.undoStack = <<>>, !.undoCount = 2, !.swapCount = 1, !.deleteCount = 0]

\* handleUndo restoring the oldest snapshot instead of the most recent one
handleUndoOldest(s) ==
    IF s.undoCount > 0 /\ Len(s.undoStack) > 0
    THEN LET lastState == s.undoStack[1]
         IN  [s EXCEPT
                !.board = lastState.board, !.score = lastState.score,
                !.undoStack = SubSeq(s.undoStack, 1, Len(s.undoStack) - 1),
                !.undoCount = s.undoCount - 1,
                !.gameWon = FALSE, !.gameOver = FALSE,
                !.powerupMode = "none", !.selectedTiles = <<>>]
    ELSE s

\* handleUndo without the two calls that clear gameWon and gameOver
handleUndoKeepsFlags(s) ==
    IF s.undoCount > 0 /\ Len(s.undoStack) > 0
    THEN LET lastState == s.undoStack[Len(s.undoStack)]
         IN  [s EXCEPT
                !.board = lastState.board, !.score = lastState.score,
                !.undoStack = SubSeq(s.undoStack, 1, Len(s.undoStack) - 1),
                !.undoCount = s.undoCount - 1,
                !.powerupMode = "none", !.selectedTiles = <<>>]
    ELSE s

\* handleUndo testing only the history, not undoCount
handleUndoAnyCount(s) ==
    IF Len(s.undoStack) > 0
    THEN LET lastState == s.undoStack[Len(s.undoStack)]
         IN  [s EXCEPT
                !.board = lastState.board, !.score = lastState.score,
                !.undoStack = SubSeq(s.undoStack, 1, Len(s.undoStack) - 1),
                !.undoCount = s.undoCount - 1,
                !.gameWon = FALSE, !.gameOver = FALSE,
                !.powerupMode = "none", !.selectedTiles = <<>>]
    ELSE s

\* handleUndo (page.tsx:377-390)
handleUndo(s) ==
    IF s.undoCount > 0 /\ Len(s.undoStack) > 0
    THEN LET lastState == s.undoStack[Len(s.undoStack)]
         IN  [s EXCEPT
                !.board = lastState.board, !.score = lastState.score,
                !.undoStack = SubSeq(s.undoStack, 1, Len(s.undoStack) - 1),
                !.undoCount = s.undoCount - 1,
                !.gameWon = FALSE, !.gameOver = FALSE,
                !.powerupMode = "none", !.selectedTiles = <<>>]
    ELSE s

\* clickSwap spending a use when the selected tile is clicked again
clickSwapDeselectCosts(s, row, col) ==
    IF Len(s.selectedTiles) = 0
    THEN [s EXCEPT !.selectedTiles = << <<row, col>> >>]
    ELSE IF Len(s.selectedTiles) = 1
    THEN LET firstRow == s.selectedTiles[1][1]
             firstCol == s.selectedTiles[1][2]
         IN  IF firstRow = row /\ firstCol = col
             THEN [s EXCEPT !.selectedTiles = <<>>,
                            !.swapCount = s.swapCount - 1]
             ELSE IF s.board[row][col] # Null
             THEN [s EXCEPT
                     !.undoStack = pushUndo(s.undoStack, s.board, s.score),
                     !.board = [r \in Idx |-> [c \in Idx |->
                                  IF r = firstRow /\ c = firstCol
                                  THEN s.board[row][col]
                                  ELSE IF r = row /\ c = col
                                  THEN s.board[firstRow][firstCol]
                                  ELSE s.board[r][c]]],
                     !.swapCount = s.swapCount - 1,
                     !.powerupMode = "none", !.selectedTiles = <<>>]
             ELSE s
    ELSE s

\* clickSwap writing the clicked value over the selected cell only
clickSwapCopies(s, row, col) ==
    IF Len(s.selectedTiles) = 0
    THEN [s EXCEPT !.selectedTiles = << <<row, col>> >>]
    ELSE IF Len(s.selectedTiles) = 1
    THEN LET firstRow == s.selectedTiles[1][1]
             firstCol == s.selectedTiles[1][2]
         IN  IF firstRow = row /\ firstCol = col
             THEN [s EXCEPT !.selectedTiles = <<>>]
             ELSE IF s.board[row][col] # Null
             THEN [s EXCEPT
                     !.undoStack = pushUndo(s.undoStack, s.board, s.score),
                     !.board = [r \in Idx |-> [c \in Idx |->
                                  IF r = firstRow /\ c = firstCol
                                  THEN s.board[row][col]
                                  ELSE s.board[r][c]]],
                     !.swapCount = s.swapCount - 1,
                     !.powerupMode = "none", !.selectedTiles = <<>>]
             ELSE s
    ELSE s

\* the swap branch of handleTileClick (page.tsx:396-421)
clickSwap(s, row, col) ==
    IF Len(s.selectedTiles) = 0
    THEN [s EXCEPT !.selectedTiles = << <<row, col>> >>]
    ELSE IF Len(s.selectedTiles) = 1
    THEN LET firstRow == s.selectedTiles[1][1]
             firstCol == s.selectedTiles[1][2]
         IN  IF firstRow = row /\ firstCol = col
             THEN [s EXCEPT !.selectedTiles = <<>>]
             ELSE IF s.board[row][col] # Null
             THEN [s EXCEPT
                     !.undoStack = pushUndo(s.undoStack, s.board, s.score),
                     !.board = [r \in Idx |-> [c \in Idx |->
                                  IF r = firstRow /\ c = firstCol
                                  THEN s.board[row][col]
                                  ELSE IF r = row /\ c = col
                                  THEN s.board[firstRow][firstCol]
                                  ELSE s.board[r][c]]],
                     !.swapCount = s.swapCount - 1,
                     !.powerupMode = "none", !.selectedTiles = <<>>]
             ELSE s
    ELSE s

\* clickDelete without the two spawns on an emptied board
clickDeleteNoRespawn(s, row, col, d1, d2) ==
    LET targetValue == s.board[row][col]
        newBoard == [r \in Idx |-> [c \in Idx |->
                        IF s.board[r][c] = targetValue THEN Null ELSE s.board[r][c]]]
    IN  IF targetValue # Null /\ s.deleteCount > 0
        THEN [s EXCEPT
                !.undoStack = pushUndo(s.undoStack, s.board, s.score),
                !.board = newBoard,
                !.deleteCount = s.deleteCount - 1,
                !.powerupMode = "none", !.selectedTiles = <<>>,
                !.gameOver = IF isGameOver(newBoard) THEN TRUE ELSE s.gameOver]
        ELSE s

\* the delete branch of handleTileClick (page.tsx:422-449)
clickDelete(s, row, col, d1, d2) ==
    LET targetValue == s.board[row][col]
        newBoard == [r \in Idx |-> [c \in Idx |->
                        IF s.board[r][c] = targetValue THEN Null ELSE s.board[r][c]]]
        hasAnyTiles == \E r \in Idx, c \in Idx : newBoard[r][c] # Null
        finalBoard == IF ~hasAnyTiles
                      THEN addRandomTile(addRandomTile(newBoard, d1[1], d1[2]),
                                         d2[1], d2[2])
                      ELSE newBoard
    IN  IF targetValue # Null /\ s.deleteCount > 0
        THEN [s EXCEPT
                !.undoStack = pushUndo(s.undoStack, s.board, s.score),
                !.board = finalBoard,
                !.deleteCount = s.deleteCount - 1,
                !.powerupMode = "none", !.selectedTiles = <<>>,
                !.gameOver = IF isGameOver(finalBoard) THEN TRUE ELSE s.gameOver]
        ELSE s

\* handleTileClick (page.tsx:393-450)
handleTileClick(s, row, col, d1, d2) ==
    IF s.powerupMode = "none" \/ s.board[row][col] = Null THEN s
    ELSE IF s.powerupMode = "swap" THEN clickSwap(s, row, col)
    ELSE IF s.powerupMode = "delete" THEN clickDelete(s, row, col, d1, d2)
    ELSE s

\* bestScoreEffect following the score down as well as up
bestScoreEffectTracksScore(s) ==
    IF s.score # s.bestScore
    THEN [s EXCEPT !.bestScore = s.score, !.savedBestScore = <<s.score>>]
    ELSE s

\* the "save best score" effect, run after the render that follows a state
\* change (page.tsx:316-321)
bestScoreEffect(s) ==
    IF s.score > s.bestScore
    THEN [s EXCEPT !.bestScore = s.score, !.savedBestScore = <<s.score>>]
    ELSE s

\* the "initialize game on mount" effect (page.tsx:514-519)
initEffect(s, d1, d2) ==
    IF ~s.showWelcome /\ ~s.showTutorial /\ s.hasSeenTutorial /\ ~s.hasInitialized
    THEN startNewGame([s EXCEPT !.hasInitialized = TRUE], d1, d2)
    ELSE s

\* the effects that run before the next event is delivered
settle(s, d1, d2) == bestScoreEffect(initEffect(s, d1, d2))


\* the "load saved data" effect (page.tsx:299-313) followed by the other mount
\* effects; a stored value is <<n>>, a missing one <<>>
mountEffects(s, d1, d2) ==
    LET s1 == IF s.savedBestScore # <<>>
              THEN [s EXCEPT !.bestScore = s.savedBestScore[1]] ELSE s
        s2 == IF s.savedTutorial
              THEN [s1 EXCEPT !.hasSeenTutorial = TRUE]
              ELSE [s1 EXCEPT !.showWelcome = TRUE]
    IN  settle([s2 EXCEPT !.mounted = TRUE], d1, d2)

DirectionKeys == {"ArrowUp", "ArrowDown", "ArrowLeft", "ArrowRight"}

\* the switch of handleKeyPress from event.code to a direction (page.tsx:459-475)
keyDirection(code) ==
    CASE code = "ArrowUp"    -> "up"
      [] code = "ArrowDown"  -> "down"
      [] code = "ArrowLeft"  -> "left"
      [] code = "ArrowRight" -> "right"

\* keyAccepted without the early return on gameOver
keyAcceptedWhenOver(s, code) ==
    ~(s.isProcessingMove \/ s.showTutorial \/ s.powerupMode # "none")

\* keyAccepted without isProcessingMove in the first early return
keyAcceptedWhileProcessing(s, code) ==
    /\ ~(s.showTutorial \/ s.powerupMode # "none")
    /\ ~(s.gameOver /\ code \notin {"KeyN", "KeyR"})

\* the two early returns of handleKeyPress (page.tsx:454-455)
keyAccepted(s, code) ==
    /\ ~(s.isProcessingMove \/ s.showTutorial \/ s.powerupMode # "none")
    /\ ~(s.gameOver /\ code \notin {"KeyN", "KeyR"})

\* handleKeyPress (page.tsx:453-504); "KeyZ" is pressed with ctrl or cmd held
handleKeyPress(s, code, d1, d2) ==
    IF ~keyAccepted(s, code) THEN s
    ELSE IF code \in DirectionKeys
         THEN [processMove(s, keyDirection(code), d1)
                 EXCEPT !.isProcessingMove = TRUE,
                        !.pendingTimers = s.pendingTimers + 1]
    ELSE IF code \in {"KeyN", "KeyR"} THEN startNewGame(s, d1, d2)
    ELSE IF code = "KeyZ" THEN handleUndo(s)
    ELSE IF code = "Escape"
         THEN (IF s.powerupMode # "none"
               THEN [s EXCEPT !.powerupMode = "none", !.selectedTiles = <<>>]
               ELSE s)
    ELSE s

\* the value processMove returns to handleKeyPress (page.tsx:330, 355, 500)
movedBy(s, code) ==
    /\ keyAccepted(s, code)
    /\ code \in DirectionKeys
    /\ moveBoard(s.board, keyDirection(code)).moved

\* the swap and delete buttons (page.tsx:770, 803)
togglePowerup(s, mode) ==
    [s EXCEPT !.powerupMode = IF s.powerupMode = mode THEN "none" ELSE mode]

\* the cancel button of the powerup indicator (page.tsx:699-702)
cancelPowerup(s) == [s EXCEPT !.powerupMode = "none", !.selectedTiles = <<>>]

\* startTutorial (page.tsx:522-526)
startTutorial(s) ==
    [s EXCEPT !.showWelcome = FALSE, !.showTutorial = TRUE, !.tutorialStep = 0]

\* skipTutorial, and the last page of nextTutorialStep (page.tsx:532-535, 539-544)
finishTutorial(s, d1, d2) ==
    startNewGame([s EXCEPT !.showTutorial = FALSE, !.hasSeenTutorial = TRUE,
                           !.savedTutorial = TRUE], d1, d2)

\* nextTutorialStep (page.tsx:528-537)
nextTutorialStep(s, d1, d2) ==
    IF s.tutorialStep < TUTORIAL_LEN - 1
    THEN [s EXCEPT !.tutorialStep = s.tutorialStep + 1]
    ELSE finishTutorial(s, d1, d2)

\* the close and "Skip Tutorial" buttons of the welcome modal (page.tsx:555-560)
closeWelcome(s, d1, d2) ==
    startNewGame([s EXCEPT !.showWelcome = FALSE, !.hasSeenTutorial = TRUE,
                           !.savedTutorial = TRUE], d1, d2)

\* the page behind a modal (fixed inset-0 z-50, page.tsx:552, 594) takes no click
mainPage(s) == ~s.showWelcome /\ ~s.showTutorial

\* ------------------------------------------------------------------------
\* Bounds and input domains
\* ------------------------------------------------------------------------
\* user events (key presses, clicks) in one run, tutorial page turns aside
MaxSteps == 2

\* the Math.random() pairs <<cell draw, value draw>> of one spawned tile
SpawnDraws == {<<0, 0>>, <<9, 9>>}

\* the cells a tile click may hit
ClickCells == {<<1, 1>>, <<1, 2>>, <<2, 1>>, <<4, 4>>}


\* ------------------------------------------------------------------------
\* Sessions in progress.  A run starts either from the constructed component
\* or from one of these sessions, each the outcome of key presses (with the
\* timer of each press expired) on a started game.
\* ------------------------------------------------------------------------
\* a mounted session on grid b with score sc and the given powerup counters
InProgress(b, sc, u, sw, del) ==
    [Constructed(<<sc>>, TRUE) EXCEPT
        !.board = b, !.score = sc, !.bestScore = sc,
        !.hasSeenTutorial = TRUE, !.hasInitialized = TRUE, !.mounted = TRUE,
        !.undoCount = u, !.swapCount = sw, !.deleteCount = del]

\* the timer callback of handleKeyPress (page.tsx:503)
timerFires(s) ==
    [s EXCEPT !.isProcessingMove = FALSE, !.pendingTimers = s.pendingTimers - 1]

\* s after the key presses `keys`, the k-th with the spawn draw draws[k]
RECURSIVE Play(_, _, _)
Play(s, keys, draws) ==
    IF keys = <<>> THEN s
    ELSE LET n == settle(handleKeyPress(s, Head(keys), Head(draws), Head(draws)),
                         Head(draws), Head(draws))
         IN  Play(IF n.pendingTimers > 0 THEN timerFires(n) ELSE n,
                  Tail(keys), Tail(draws))

Same(key, n) == [k \in 1..n |-> key]

\* grids whose move to the left earns 124, 128, 252, 256, 508, 512 and 2048
Gain124 == << <<32, 32, 16, 16>>, <<8, 8, 4, 4>>, <<2, 2, 0, 0>>, <<0, 0, 0, 0>> >>
Gain128 == << <<64, 64, 0, 0>>, <<2, 4, 0, 0>>, <<0, 0, 0, 0>>, <<0, 0, 0, 0>> >>
Gain252 == << <<64, 64, 0, 0>>, <<32, 32, 16, 16>>, <<8, 8, 4, 4>>, <<2, 2, 0, 0>> >>
Gain256 == << <<128, 128, 0, 0>>, <<4, 2, 0, 0>>, <<0, 0, 0, 0>>, <<0, 0, 0, 0>> >>
Gain508 == << <<128, 128, 64, 64>>, <<32, 32, 16, 16>>, <<8, 8, 4, 4>>, <<2, 2, 0, 0>> >>
Gain512 == << <<256, 256, 0, 0>>, <<2, 4, 0, 0>>, <<0, 0, 0, 0>>, <<0, 0, 0, 0>> >>
Gain2048 == << <<1024, 1024, 0, 0>>, <<4, 2, 0, 0>>, <<0, 0, 0, 0>>, <<0, 0, 0, 0>> >>
\* a full grid one merge away from a stuck one
NearlyStuck == << <<2, 4, 2, 4>>, <<4, 2, 4, 2>>, <<2, 4, 2, 4>>, <<4, 2, 8, 8>> >>

\* the score of a grid built from spawned 2-tiles only: a tile 2^k is worth
\* (k - 1) * 2^k
RECURSIVE tileWorth(_)
tileWorth(v) == IF v <= 2 THEN 0 ELSE v + 2 * tileWorth(v \div 2)

RECURSIVE worthFrom(_, _)
worthFrom(b, n) ==
    IF n > GRID_SIZE * GRID_SIZE THEN 0
    ELSE tileWorth(b[((n - 1) \div GRID_SIZE) + 1][((n - 1) % GRID_SIZE) + 1])
            + worthFrom(b, n + 1)

\* the grid b reached in play, after five more presses of "up" that moved nothing
Idle(b, u, sw, del) ==
    Play(InProgress(b, worthFrom(b, 1), u, sw, del),
         Same("ArrowUp", 5), Same(<<0, 0>>, 5))

\* a new game followed by n alternating moves
Opening(n) ==
    Play(startNewGame(InProgress(initializeBoard, 0, 2, 1, 0), <<0, 0>>, <<0, 0>>),
         [k \in 1..n |-> IF k % 2 = 1 THEN "ArrowRight" ELSE "ArrowDown"],
         [k \in 1..n |-> IF k % 3 = 0 THEN <<9, 9>> ELSE <<0, 0>>])

\* a session that has just been lost: the move to the left merges the two 8
\* and the tile spawned in the last free cell leaves no move
Stuck == Play(Idle(NearlyStuck, 1, 1, 0), <<"ArrowLeft">>, << <<0, 0>> >>)

\* a grid whose tiles all hold one value, as left by deleting the small tiles
\* around two large ones
TwoAlike == << <<256, 256, 0, 0>>, <<0, 0, 0, 0>>, <<0, 0, 0, 0>>, <<0, 0, 0, 0>> >>

Seeds ==
    { Idle(Gain124, 2, 1, 0), Idle(Gain128, 2, 1, 0), Idle(Gain128, 3, 2, 1),
      Idle(Gain252, 0, 0, 0), Idle(Gain256, 2, 1, 0), Idle(Gain256, 3, 2, 1),
      Idle(Gain508, 1, 1, 0), Idle(Gain512, 2, 1, 0), Idle(Gain512, 3, 2, 1),
      Idle(Gain2048, 2, 0, 0),
      Idle(NearlyStuck, 2, 1, 1),
      Stuck,
      Opening(4), Opening(5), Opening(6),
      togglePowerup(Opening(5), "swap"),
      handleTileClick(togglePowerup(Idle(Gain128, 2, 1, 0), "swap"),
                      1, 1, <<0, 0>>, <<0, 0>>),
      togglePowerup(Idle(Gain512, 2, 1, 1), "delete"),
      handleTileClick(togglePowerup(Stuck, "swap"), 1, 1, <<0, 0>>, <<0, 0>>),
      togglePowerup(Idle(TwoAlike, 2, 1, 1), "delete") }

\* ------------------------------------------------------------------------
\* Actions of the session
\* ------------------------------------------------------------------------
NoFn == /\ fnOp = "none" /\ fnIn = <<>> /\ fnOut = <<>>

Init ==
    /\ \E s \in Seeds \cup { Constructed(sb, st) :
                               sb \in {<<>>, <<300>>}, st \in BOOLEAN } :
          /\ board = s.board /\ score = s.score /\ bestScore = s.bestScore
          /\ gameWon = s.gameWon /\ gameOver = s.gameOver
          /\ showWelcome = s.showWelcome /\ isProcessingMove = s.isProcessingMove
          /\ showTutorial = s.showTutorial /\ tutorialStep = s.tutorialStep
          /\ hasSeenTutorial = s.hasSeenTutorial
          /\ powerupMode = s.powerupMode /\ selectedTiles = s.selectedTiles
          /\ undoStack = s.undoStack /\ undoCount = s.undoCount
          /\ swapCount = s.swapCount /\ deleteCount = s.deleteCount
          /\ hasInitialized = s.hasInitialized
          /\ savedBestScore = s.savedBestScore /\ savedTutorial = s.savedTutorial
          /\ pendingTimers = s.pendingTimers /\ mounted = s.mounted
          /\ pre = s
          /\ pre2 = [board |-> s.board, score |-> s.score]
    /\ last = [op |-> "none", key |-> "-", row |-> 0, col |-> 0,
               ran |-> FALSE, moved |-> FALSE,
               prevOp |-> "none", prevMoved |-> FALSE]
    /\ steps = 0
    /\ NoFn

\* a user event op was delivered and its handler left the state n; a key
\* press ran its operation iff handleKeyPress did not return early; turning a
\* tutorial page is not counted as a step of the run
Event(op, key, row, col, n) ==
    /\ mounted
    /\ steps < MaxSteps
    /\ Commit(n)
    /\ last' = [op |-> op, key |-> key, row |-> row, col |-> col,
                ran |-> (key = "-" \/ keyAccepted(Cur, key)),
                moved |-> (key # "-" /\ movedBy(Cur, key)),
                prevOp |-> last.op, prevMoved |-> last.moved]
    /\ pre' = Cur
    /\ pre2' = [board |-> pre.board, score |-> pre.score]
    /\ steps' = IF op = "clickNextTutorial" /\ tutorialStep < TUTORIAL_LEN - 1
                THEN steps ELSE steps + 1
    /\ UNCHANGED fnVars

\* the component mounts and its effects run (page.tsx:299-313, 507-519)
Mount ==
    /\ ~mounted
    /\ \E d1 \in SpawnDraws, d2 \in SpawnDraws : Commit(mountEffects(Cur, d1, d2))
    /\ UNCHANGED <<histVars, fnVars>>

\* the setTimeout callback of handleKeyPress (page.tsx:503)
TimerFires ==
    /\ pendingTimers > 0
    /\ Commit(timerFires(Cur))
    /\ UNCHANGED <<histVars, fnVars>>

KeyDirection ==
    \E code \in DirectionKeys, d \in SpawnDraws :
        Event("keyDirection", code, 0, 0, settle(handleKeyPress(Cur, code, d, d), d, d))

KeyNewGame ==
    \E d1 \in SpawnDraws, d2 \in SpawnDraws :
        Event("keyNewGame", "KeyN", 0, 0, settle(handleKeyPress(Cur, "KeyN", d1, d2), d1, d2))

KeyUndo ==
    Event("keyUndo", "KeyZ", 0, 0,
          settle(handleKeyPress(Cur, "KeyZ", <<0, 0>>, <<0, 0>>), <<0, 0>>, <<0, 0>>))

KeyEscape ==
    Event("keyEscape", "Escape", 0, 0,
          settle(handleKeyPress(Cur, "Escape", <<0, 0>>, <<0, 0>>), <<0, 0>>, <<0, 0>>))

\* the New Game button (page.tsx:646)
ClickNewGame ==
    /\ mainPage(Cur)
    /\ \E d1 \in SpawnDraws, d2 \in SpawnDraws :
          Event("clickNewGame", "-", 0, 0, settle(startNewGame(Cur, d1, d2), d1, d2))

\* the undo button, disabled at undoCount = 0 (page.tsx:738-739)
ClickUndo ==
    /\ mainPage(Cur)
    /\ undoCount # 0
    /\ Event("clickUndo", "-", 0, 0, settle(handleUndo(Cur), <<0, 0>>, <<0, 0>>))

\* the swap button, disabled at swapCount = 0 (page.tsx:770-771)
ClickSwap ==
    /\ mainPage(Cur)
    /\ swapCount # 0
    /\ Event("clickSwap", "-", 0, 0,
             settle(togglePowerup(Cur, "swap"), <<0, 0>>, <<0, 0>>))

\* the delete button, disabled at deleteCount = 0 (page.tsx:803-804)
ClickDelete ==
    /\ mainPage(Cur)
    /\ deleteCount # 0
    /\ Event("clickDelete", "-", 0, 0,
             settle(togglePowerup(Cur, "delete"), <<0, 0>>, <<0, 0>>))

\* the cancel button, rendered in a powerup mode only (page.tsx:694-706)
ClickCancel ==
    /\ mainPage(Cur)
    /\ powerupMode # "none"
    /\ Event("clickCancel", "-", 0, 0, settle(cancelPowerup(Cur), <<0, 0>>, <<0, 0>>))

\* a click on the cell (row, col) of the grid (page.tsx:679)
ClickTile ==
    /\ mainPage(Cur)
    /\ \E cell \in ClickCells, d1 \in SpawnDraws, d2 \in SpawnDraws :
          Event("clickTile", "-", cell[1], cell[2],
                settle(handleTileClick(Cur, cell[1], cell[2], d1, d2), d1, d2))

\* the "View Tutorial Again" button (page.tsx:875-883) and the "Play
\* Tutorial" button of the welcome modal (page.tsx:571)
ClickStartTutorial ==
    /\ \/ mainPage(Cur) /\ hasSeenTutorial
       \/ showWelcome
    /\ Event("clickStartTutorial", "-", 0, 0,
             settle(startTutorial(Cur), <<0, 0>>, <<0, 0>>))

\* the close and skip buttons of the welcome modal (page.tsx:554-586)
ClickCloseWelcome ==
    /\ showWelcome
    /\ \E d1 \in SpawnDraws, d2 \in SpawnDraws :
          Event("clickCloseWelcome", "-", 0, 0, settle(closeWelcome(Cur, d1, d2), d1, d2))

\* the Next / Start Game button of the tutorial modal (page.tsx:611-616)
ClickNextTutorial ==
    /\ showTutorial
    /\ \E d1 \in SpawnDraws, d2 \in SpawnDraws :
          Event("clickNextTutorial", "-", 0, 0,
                settle(nextTutorialStep(Cur, d1, d2), d1, d2))

\* the Skip button of the tutorial modal (page.tsx:605-610)
ClickSkipTutorial ==
    /\ showTutorial
    /\ \E d1 \in SpawnDraws, d2 \in SpawnDraws :
          Event("clickSkipTutorial", "-", 0, 0,
                settle(finishTutorial(Cur, d1, d2), d1, d2))

Next ==
    \/ Mount
    \/ TimerFires
    \/ KeyDirection
    \/ KeyNewGame
    \/ KeyUndo
    \/ KeyEscape
    \/ ClickNewGame
    \/ ClickUndo
    \/ ClickSwap
    \/ ClickDelete
    \/ ClickCancel
    \/ ClickTile
    \/ ClickStartTutorial
    \/ ClickCloseWelcome
    \/ ClickNextTutorial
    \/ ClickSkipTutorial

Spec == Init /\ [][Next]_vars


\* ------------------------------------------------------------------------
\* Properties of the session
\* ------------------------------------------------------------------------
\* the last event was a directional key press that reached processMove
MoveRequested == last.op = "keyDirection" /\ last.ran
\* what the Move Engine made of that request
lastMove == moveBoard(pre.board, keyDirection(last.key))
\* the snapshot {grid, score} of the state the last event was delivered in
preSnapshot == [board |-> pre.board, score |-> pre.score]
\* a bounded history after one more snapshot
Pushed(stack, snap) ==
    IF Len(stack) < 5 THEN Append(stack, snap) ELSE Append(Tail(stack), snap)
\* the last event was a tile click that completed a swap
SwapDone ==
    /\ last.op = "clickTile" /\ pre.powerupMode = "swap"
    /\ Len(pre.selectedTiles) = 1
    /\ pre.selectedTiles[1] # <<last.row, last.col>>
    /\ pre.board[last.row][last.col] # Null
\* the last event was a tile click that completed a delete
DeleteDone ==
    /\ last.op = "clickTile" /\ pre.powerupMode = "delete"
    /\ pre.board[last.row][last.col] # Null /\ pre.deleteCount > 0
\* the last event was an undo request that reached handleUndo
UndoRequested == last.op \in {"keyUndo", "clickUndo"} /\ last.ran

\* C1: a directional move request for which the Move Engine reports
\* changed=false leaves grid, score and UndoHistory exactly as they were: no
\* tile is spawned and no snapshot remains pushed.
C1_NoOpMoveLeavesState ==
    (MoveRequested /\ ~lastMove.moved)
        => (board = pre.board /\ score = pre.score /\ undoStack = pre.undoStack)

\* C2: undo round-trip: a directional move that takes effect followed by an
\* undo (with undoRemaining > 0 at the undo) restores exactly the grid and
\* the score held before the move, and lowers undoRemaining by exactly 1.
C2_UndoRoundTrip ==
    (UndoRequested /\ last.prevMoved /\ pre.undoCount > 0)
        => /\ board = pre2.board
           /\ score = pre2.score
           /\ undoCount = pre.undoCount - 1

C2_Witness ==
    /\ UndoRequested /\ last.prevMoved /\ pre.undoCount > 0
    /\ board = pre2.board /\ board # pre.board
    /\ score = pre2.score /\ score # pre.score

\* C3: the UndoHistory never holds more than 5 snapshots, and a push made at
\* 5 (by a move, a swap or a delete) evicts the oldest snapshot, keeps the
\* other four in order and puts the new snapshot last.
C3_HistoryBounded ==
    /\ Len(undoStack) <= 5
    /\ ((MoveRequested \/ SwapDone \/ DeleteDone) /\ Len(pre.undoStack) = 5)
          => /\ Len(undoStack) = 5
             /\ \A k \in 1..4 : undoStack[k] = pre.undoStack[k + 1]
             /\ undoStack[5] = preSnapshot

C3_Witness ==
    /\ SwapDone /\ Len(pre.undoStack) = 5
    /\ pre.undoStack[1] # pre.undoStack[2]
    /\ undoStack[1] = pre.undoStack[2] /\ undoStack[5] = preSnapshot

\* C4: the three powerup counters stay within their bounds in every state.
C4_CountersInRange ==
    /\ undoCount \in 0..3
    /\ swapCount \in 0..2
    /\ deleteCount \in 0..1

C4_Witness ==
    /\ MoveRequested /\ lastMove.moved /\ lastMove.score >= 128
    /\ pre.undoCount = 3 /\ undoCount = 3

\* C5: a directional move that changes the grid commits as one turn: the new
\* grid is the Move Engine's result plus exactly one tile (2 or 4) in a cell
\* that was empty in that result, the score grows by exactly scoreGained, and
\* exactly one snapshot equal to the pre-move {grid, score} is added.
C5_MoveCommitsOneTurn ==
    (MoveRequested /\ lastMove.moved)
        => /\ \E r \in Idx, c \in Idx :
                 /\ lastMove.newBoard[r][c] = Null
                 /\ board[r][c] \in {2, 4}
                 /\ \A r2 \in Idx, c2 \in Idx :
                       (<<r2, c2>> # <<r, c>>) => board[r2][c2] = lastMove.newBoard[r2][c2]
           /\ score = pre.score + lastMove.score
           /\ undoStack = Pushed(pre.undoStack, preSnapshot)

\* the end-to-end scenario: 2-tiles at (0,0) and (0,1), moved left
C5_Witness ==
    /\ MoveRequested /\ lastMove.moved /\ last.key = "ArrowLeft"
    /\ pre.board = [initializeBoard EXCEPT ![1] = <<2, 2, 0, 0>>]
    /\ pre.score = 0
    /\ board[1][1] = 4 /\ score = 4
    /\ undoStack = <<preSnapshot>>

\* C10: powerup unlocks depend on the single move's scoreGained: >= 128
\* raises undoRemaining by 1 unless it is 3, >= 256 also raises
\* swapRemaining by 1 unless it is 2, >= 512 also raises deleteRemaining by
\* 1 unless it is 1; a move gaining less than 128 changes no counter.
C10_UnlocksBySingleMove ==
    (MoveRequested /\ lastMove.moved)
        => /\ undoCount = IF lastMove.score >= 128 /\ pre.undoCount # 3
                          THEN pre.undoCount + 1 ELSE pre.undoCount
           /\ swapCount = IF lastMove.score >= 256 /\ pre.swapCount # 2
                          THEN pre.swapCount + 1 ELSE pre.swapCount
           /\ deleteCount = IF lastMove.score >= 512 /\ pre.deleteCount # 1
                            THEN pre.deleteCount + 1 ELSE pre.deleteCount

C10_Witness ==
    /\ MoveRequested /\ lastMove.moved /\ lastMove.score = 512
    /\ undoCount = pre.undoCount + 1
    /\ swapCount = pre.swapCount + 1
    /\ deleteCount = pre.deleteCount + 1


\* ------------------------------------------------------------------------
\* The pure functions applied to bounded inputs
\* ------------------------------------------------------------------------
\* largest exponent of a tile in an input line
MaxExp == 3

TileValues == {Null} \cup {2 ^ k : k \in 1..MaxExp}
Lines == [Idx -> TileValues]

\* the rows the input grids are built from
GridRows ==
    { <<2, 4, 2, 4>>, <<4, 2, 4, 2>>, <<0, 4, 2, 4>>, <<2, 4, 8, 2>>,
      <<2, 2, 4, 8>>, <<0, 0, 0, 0>>, <<0, 2, 0, 2>>, <<4, 0, 0, 0>>,
      <<8, 4, 2, 0>> }
Grids == [Idx -> GridRows]

\* the Math.random() pairs tried on an input grid
FnDraws == {0, 3, 6, 9} \X {0, 9}

InitFn ==
    /\ \E s \in {Constructed(<<>>, FALSE)} :
          /\ board = s.board /\ score = s.score /\ bestScore = s.bestScore
          /\ gameWon = s.gameWon /\ gameOver = s.gameOver
          /\ showWelcome = s.showWelcome /\ isProcessingMove = s.isProcessingMove
          /\ showTutorial = s.showTutorial /\ tutorialStep = s.tutorialStep
          /\ hasSeenTutorial = s.hasSeenTutorial
          /\ powerupMode = s.powerupMode /\ selectedTiles = s.selectedTiles
          /\ undoStack = s.undoStack /\ undoCount = s.undoCount
          /\ swapCount = s.swapCount /\ deleteCount = s.deleteCount
          /\ hasInitialized = s.hasInitialized
          /\ savedBestScore = s.savedBestScore /\ savedTutorial = s.savedTutorial
          /\ pendingTimers = s.pendingTimers /\ mounted = s.mounted
          /\ pre = s
          /\ pre2 = [board |-> s.board, score |-> s.score]
    /\ last = [op |-> "none", key |-> "-", row |-> 0, col |-> 0,
               ran |-> FALSE, moved |-> FALSE,
               prevOp |-> "none", prevMoved |-> FALSE]
    /\ steps = 0
    /\ fnOut = <<>>
    /\ \/ fnOp = "line" /\ fnIn \in Lines
       \/ fnOp = "grid" /\ fnIn \in Grids

ApplyMoveLine ==
    /\ fnOp = "line"
    /\ fnOp' = "moveLine"
    /\ fnOut' = moveLine(fnIn)
    /\ UNCHANGED <<fnIn, progVars, histVars>>

ApplyMoveBoard ==
    /\ fnOp = "grid"
    /\ fnOp' = "moveBoard"
    /\ \E direction \in Directions :
          fnOut' = [direction |-> direction, result |-> moveBoard(fnIn, direction)]
    /\ UNCHANGED <<fnIn, progVars, histVars>>

ApplyIsGameOver ==
    /\ fnOp = "grid"
    /\ fnOp' = "isGameOver"
    /\ fnOut' = isGameOver(fnIn)
    /\ UNCHANGED <<fnIn, progVars, histVars>>

ApplyAddRandomTile ==
    /\ fnOp = "grid"
    /\ fnOp' = "addRandomTile"
    /\ \E d \in FnDraws :
          fnOut' = [draw |-> d, result |-> addRandomTile(fnIn, d[1], d[2])]
    /\ UNCHANGED <<fnIn, progVars, histVars>>

NextFn ==
    \/ ApplyMoveLine
    \/ ApplyMoveBoard
    \/ ApplyIsGameOver
    \/ ApplyAddRandomTile

SpecFn == InitFn /\ [][NextFn]_vars

\* ------------------------------------------------------------------------
\* Properties of the pure functions
\* ------------------------------------------------------------------------
\* the j-th smallest element of a set of numbers
Nth(S, j) == CHOOSE p \in S : Cardinality({q \in S : q <= p}) = j
\* the non-empty values of a line, in their order
PackedValues(line) ==
    LET at == {i \in 1..Len(line) : line[i] # Null}
    IN  [j \in 1..Cardinality(at) |-> line[Nth(at, j)]]
\* the positions of f that merge with their right neighbour when equal
\* neighbours are merged strictly left to right, each cell at most once
MergeStarts(f) ==
    CHOOSE M \in SUBSET (1..Len(f)) :
        \A i \in 1..Len(f) :
            i \in M <=> (i < Len(f) /\ (i - 1) \notin M /\ f[i] = f[i + 1])
RECURSIVE SumOver(_, _)
SumOver(S, f) ==
    IF S = {} THEN 0
    ELSE LET p == CHOOSE q \in S : TRUE IN 2 * f[p] + SumOver(S \ {p}, f)
\* the line the contract of the Line Resolver asks for
ResolvedLine(line) ==
    LET f     == PackedValues(line)
        M     == MergeStarts(f)
        heads == {i \in 1..Len(f) : (i - 1) \notin M}
    IN  [j \in Idx |-> IF j <= Cardinality(heads)
                       THEN (IF Nth(heads, j) \in M
                             THEN 2 * f[Nth(heads, j)] ELSE f[Nth(heads, j)])
                       ELSE Null]
ResolvedScore(line) == SumOver(MergeStarts(PackedValues(line)), PackedValues(line))

\* C6: the Line Resolver returns a line of length 4 with the non-empty values
\* packed toward index 0 in order, equal neighbours merged strictly left to
\* right (no cell in two merges), the rest empty, and the score the sum of
\* the merged values; [2,2,2,empty] gives [4,2,empty,empty] with score 4.
C6_LineResolver ==
    fnOp = "moveLine"
        => /\ Len(fnOut.newLine) = 4
           /\ \A j \in Idx : fnOut.newLine[j] = ResolvedLine(fnIn)[j]
           /\ fnOut.score = ResolvedScore(fnIn)
           /\ (fnIn = <<2, 2, 2, 0>>
                 => fnOut.newLine = <<4, 2, 0, 0>> /\ fnOut.score = 4)

C6_Witness ==
    /\ fnOp = "moveLine" /\ fnIn = <<2, 2, 2, 0>>
    /\ fnOut.newLine = <<4, 2, 0, 0>> /\ fnOut.score = 4

\* the cell at distance i from the destination edge in line k of a grid
CellToward(grid, direction, k, i) ==
    CASE direction = "left"  -> grid[k][i]
      [] direction = "right" -> grid[k][5 - i]
      [] direction = "up"    -> grid[i][k]
      [] direction = "down"  -> grid[5 - i][k]
\* every line is packed against the destination edge with no equal neighbours
Settled(grid, direction) ==
    \A k \in Idx, i \in 1..3 :
        /\ CellToward(grid, direction, k, i) = Null
              => CellToward(grid, direction, k, i + 1) = Null
        /\ CellToward(grid, direction, k, i) # Null
              => CellToward(grid, direction, k, i + 1) # CellToward(grid, direction, k, i)

\* C7: the Move Engine's changed flag is true exactly when the resulting grid
\* differs from the input in at least one cell; a grid whose lines are all
\* packed against the destination edge with no equal neighbours along the
\* direction yields changed=false and a result equal to the input.
C7_ChangedFlag ==
    fnOp = "moveBoard"
        => /\ fnOut.result.moved
                <=> (\E r \in Idx, c \in Idx : fnOut.result.newBoard[r][c] # fnIn[r][c])
           /\ Settled(fnIn, fnOut.direction)
                => (~fnOut.result.moved
                    /\ \A r \in Idx, c \in Idx : fnOut.result.newBoard[r][c] = fnIn[r][c])

C7_Witness ==
    /\ fnOp = "moveBoard" /\ fnOut.direction = "down"
    /\ fnIn = << <<0, 2, 0, 2>>, <<2, 4, 2, 4>>, <<4, 2, 4, 2>>, <<2, 4, 2, 4>> >>
    /\ Settled(fnIn, "down") /\ ~fnOut.result.moved

\* C8: the loss check is true exactly when the grid has no empty cell and no
\* two horizontally or vertically adjacent cells (full 4-neighbourhood) hold
\* equal values.
C8_LossCheck ==
    fnOp = "isGameOver"
        => (fnOut <=>
              /\ \A r \in Idx, c \in Idx : fnIn[r][c] # Null
              /\ \A r \in Idx, c \in Idx, r2 \in Idx, c2 \in Idx :
                    ((r = r2 /\ (c2 = c + 1 \/ c2 = c - 1))
                       \/ (c = c2 /\ (r2 = r + 1 \/ r2 = r - 1)))
                    => fnIn[r][c] # fnIn[r2][c2])

C8_Witness ==
    /\ fnOp = "isGameOver" /\ fnOut
    /\ fnIn = << <<2, 4, 2, 4>>, <<4, 2, 4, 2>>, <<2, 4, 2, 4>>, <<4, 2, 4, 2>> >>

TileCount(grid) == Cardinality({<<r, c>> \in Idx \X Idx : grid[r][c] # Null})

\* C9: on a grid with an empty cell the Tile Spawner returns a grid with
\* exactly one more tile, the new tile is 2 or 4 in a cell that was empty and
\* every other cell is unchanged; a grid with no empty cell comes back as is.
C9_Spawner ==
    fnOp = "addRandomTile"
        => IF \E r \in Idx, c \in Idx : fnIn[r][c] = Null
           THEN /\ TileCount(fnOut.result) = TileCount(fnIn) + 1
                /\ \E r \in Idx, c \in Idx :
                      /\ fnIn[r][c] = Null
                      /\ fnOut.result[r][c] \in {2, 4}
                      /\ \A r2 \in Idx, c2 \in Idx :
                            (<<r2, c2>> # <<r, c>>) => fnOut.result[r2][c2] = fnIn[r2][c2]
           ELSE \A r \in Idx, c \in Idx : fnOut.result[r][c] = fnIn[r][c]

C9_Witness ==
    /\ fnOp = "addRandomTile"
    /\ fnIn = << <<2, 4, 2, 4>>, <<0, 4, 2, 4>>, <<4, 2, 4, 2>>, <<0, 2, 0, 2>> >>
    /\ fnOut.result[4][3] = 4
    /\ TileCount(fnOut.result) = 14

\* ------------------------------------------------------------------------
\* The session once it is lost, undo, the powerups, new sessions
\* ------------------------------------------------------------------------
\* the fields a rejected request must leave alone
CoreUnchanged ==
    /\ board = pre.board /\ score = pre.score /\ undoStack = pre.undoStack
    /\ undoCount = pre.undoCount /\ swapCount = pre.swapCount
    /\ deleteCount = pre.deleteCount

\* a key that handleKeyPress would take if the session were not lost
OnlyOverRejects ==
    /\ pre.gameOver
    /\ ~pre.isProcessingMove /\ ~pre.showTutorial /\ pre.powerupMode = "none"

\* C11: while Over is set a directional key (like every key but the
\* new-session one) is rejected and changes neither the grid, the score, the
\* history nor a counter; the new-session key is still accepted and starts a
\* new session.
C11_OverRejectsMoves ==
    /\ (last.op \in {"keyDirection", "keyUndo", "keyEscape"} /\ pre.gameOver)
          => (~last.ran /\ CoreUnchanged)
    /\ (last.op = "keyNewGame" /\ OnlyOverRejects)
          => (last.ran /\ ~gameOver /\ score = 0 /\ undoStack = <<>>)

\* a lost session whose grid has a move again (after a swap), and an arrow key
\* that would have moved it
C11_Witness ==
    /\ last.op = "keyDirection" /\ OnlyOverRejects
    /\ moveBoard(pre.board, keyDirection(last.key)).moved
    /\ board = pre.board /\ gameOver

\* the operations that start a new session
NewSessionStarted ==
    \/ last.op \in {"clickNewGame", "clickCloseWelcome", "clickSkipTutorial"}
    \/ last.op = "keyNewGame" /\ last.ran
    \/ last.op = "clickNextTutorial" /\ pre.tutorialStep = TUTORIAL_LEN - 1

\* C12: once Over is set it stays set until a new session is started; no
\* other operation (undo, swap, delete, tile click, mode toggle, directional
\* input) clears it.
C12_OverStaysSet ==
    (last.op # "none" /\ pre.gameOver /\ ~NewSessionStarted) => gameOver

\* an undo request that reaches the body of handleUndo
UndoPerformed ==
    /\ UndoRequested
    /\ pre.undoCount > 0 /\ Len(pre.undoStack) > 0

\* C13: an undo with undoCount > 0 and a non-empty history removes the most
\* recent snapshot, sets grid and score to it, lowers undoCount by 1, sets
\* the powerup mode to none with no selected tile, and leaves Won and Over
\* false whatever the restored grid holds.
C13_UndoEffects ==
    UndoPerformed =>
        LET top == pre.undoStack[Len(pre.undoStack)]
        IN  /\ undoStack = SubSeq(pre.undoStack, 1, Len(pre.undoStack) - 1)
            /\ board = top.board /\ score = top.score
            /\ undoCount = pre.undoCount - 1
            /\ powerupMode = "none" /\ selectedTiles = <<>>
            /\ ~gameWon /\ ~gameOver

\* an undo in a lost session that restores a grid with no move left
C13_Witness ==
    /\ UndoPerformed /\ pre.gameOver
    /\ isGameOver(board) /\ ~gameOver
    /\ board # pre.board

\* C14: an undo requested with undoCount = 0 or with an empty history is a
\* no-op: grid, score, history, the three counters, Won, Over, the powerup
\* mode and the selected tiles are unchanged.
C14_UndoNoOp ==
    (last.op \in {"keyUndo", "clickUndo"}
       /\ (pre.undoCount = 0 \/ Len(pre.undoStack) = 0))
    => /\ CoreUnchanged
       /\ gameWon = pre.gameWon /\ gameOver = pre.gameOver
       /\ powerupMode = pre.powerupMode /\ selectedTiles = pre.selectedTiles

\* the undo key reaches handleUndo with no use left although the history holds
\* snapshots
C14_Witness ==
    /\ UndoRequested /\ pre.undoCount = 0 /\ Len(pre.undoStack) > 0
    /\ board = pre.board /\ undoStack = pre.undoStack /\ undoCount = 0

\* the undo button clicked with uses left and an empty history
C14_WitnessEmpty ==
    /\ last.op = "clickUndo" /\ pre.undoCount > 0 /\ Len(pre.undoStack) = 0

\* C15: in swap mode with one tile selected, a click on a different non-empty
\* cell pushes a snapshot of the grid and score before the swap, exchanges
\* the values of exactly those two cells (every other cell and the score
\* unchanged), lowers swapCount by 1, and sets the powerup mode to none with
\* no selected tile.
C15_SwapCompletes ==
    SwapDone =>
        LET first == pre.selectedTiles[1]
        IN  /\ undoStack = Pushed(pre.undoStack, preSnapshot)
            /\ board[first[1]][first[2]] = pre.board[last.row][last.col]
            /\ board[last.row][last.col] = pre.board[first[1]][first[2]]
            /\ \A r \in Idx, c \in Idx :
                  (<<r, c>> # first /\ <<r, c>> # <<last.row, last.col>>)
                     => board[r][c] = pre.board[r][c]
            /\ score = pre.score
            /\ swapCount = pre.swapCount - 1
            /\ powerupMode = "none" /\ selectedTiles = <<>>

\* a swap of two tiles of different values
C15_Witness ==
    /\ SwapDone
    /\ pre.board[pre.selectedTiles[1][1]][pre.selectedTiles[1][2]] # Null
    /\ pre.board[pre.selectedTiles[1][1]][pre.selectedTiles[1][2]]
          # pre.board[last.row][last.col]
    /\ board # pre.board /\ swapCount = pre.swapCount - 1

\* the grid before the delete holds no value but the clicked one
DeleteEmpties ==
    \A r \in Idx, c \in Idx :
        pre.board[r][c] \in {Null, pre.board[last.row][last.col]}

\* C16: in delete mode with deleteCount > 0, a click on a non-empty cell of
\* value V pushes a snapshot of the state before the delete, empties every
\* cell holding V, leaves every cell holding another value untouched, lowers
\* deleteCount by 1 and sets the powerup mode to none; when the delete leaves
\* no tile, exactly two tiles (each 2 or 4) are spawned.
C16_DeleteCompletes ==
    DeleteDone =>
        /\ undoStack = Pushed(pre.undoStack, preSnapshot)
        /\ deleteCount = pre.deleteCount - 1
        /\ powerupMode = "none"
        /\ IF DeleteEmpties
           THEN /\ TileCount(board) = 2
                /\ \A r \in Idx, c \in Idx : board[r][c] \in {Null, 2, 4}
           ELSE \A r \in Idx, c \in Idx :
                    board[r][c] = IF pre.board[r][c] = pre.board[last.row][last.col]
                                  THEN Null ELSE pre.board[r][c]

\* a delete of the only value on the grid, answered with two new tiles
C16_Witness ==
    /\ DeleteDone /\ DeleteEmpties
    /\ TileCount(pre.board) = 2 /\ TileCount(board) = 2
    /\ deleteCount = 0

\* a delete that removes two tiles at once and leaves the others
C16_WitnessSome ==
    /\ DeleteDone /\ ~DeleteEmpties
    /\ TileCount(board) = TileCount(pre.board) - 2

\* ------------------------------------------------------------------------
\* handleTileClick called on its own: the state it closes over is any session
\* in progress in either powerup mode, with any value of the two counters,
\* whether or not the buttons would have let the mode be entered
\* ------------------------------------------------------------------------
CoreRequests ==
    { [s EXCEPT !.powerupMode = m, !.selectedTiles = sel,
                !.swapCount = sw, !.deleteCount = d] :
        s \in Seeds, m \in {"swap", "delete"},
        sel \in {<<>>, << <<1, 1>> >>},
        sw \in 0..MAX_SWAP_COUNT, d \in 0..MAX_DELETE_COUNT }

InitCore ==
    /\ \E s \in CoreRequests :
          /\ board = s.board /\ score = s.score /\ bestScore = s.bestScore
          /\ gameWon = s.gameWon /\ gameOver = s.gameOver
          /\ showWelcome = s.showWelcome /\ isProcessingMove = s.isProcessingMove
          /\ showTutorial = s.showTutorial /\ tutorialStep = s.tutorialStep
          /\ hasSeenTutorial = s.hasSeenTutorial
          /\ powerupMode = s.powerupMode /\ selectedTiles = s.selectedTiles
          /\ undoStack = s.undoStack /\ undoCount = s.undoCount
          /\ swapCount = s.swapCount /\ deleteCount = s.deleteCount
          /\ hasInitialized = s.hasInitialized
          /\ savedBestScore = s.savedBestScore /\ savedTutorial = s.savedTutorial
          /\ pendingTimers = s.pendingTimers /\ mounted = s.mounted
          /\ pre = s
          /\ pre2 = [board |-> s.board, score |-> s.score]
    /\ last = [op |-> "none", key |-> "-", row |-> 0, col |-> 0,
               ran |-> FALSE, moved |-> FALSE,
               prevOp |-> "none", prevMoved |-> FALSE]
    /\ steps = 0
    /\ NoFn

NextCore == ClickTile

SpecCore == InitCore /\ [][NextCore]_vars

\* a tile click in a powerup mode whose counter is 0
ZeroCountSwap == last.op = "clickTile" /\ pre.powerupMode = "swap" /\ pre.swapCount = 0
ZeroCountDelete ==
    last.op = "clickTile" /\ pre.powerupMode = "delete" /\ pre.deleteCount = 0

C18_NewSession ==
    NewSessionStarted =>
        /\ TileCount(board) = 2
        /\ \A r \in Idx, c \in Idx : board[r][c] \in {Null, 2, 4}
        /\ score = 0 /\ ~gameWon /\ ~gameOver
        /\ powerupMode = "none" /\ selectedTiles = <<>>
        /\ undoStack = <<>>
        /\ undoCount = 2 /\ swapCount = 1 /\ deleteCount = 0
        /\ bestScore = pre.bestScore

\* a new session started from a session with a score, a full history and all
\* counters at their maxima
C18_Witness ==
    /\ NewSessionStarted
    /\ pre.score > 0 /\ Len(pre.undoStack) = 5
    /\ pre.undoCount = MAX_UNDO_COUNT /\ pre.swapCount = MAX_SWAP_COUNT
    /\ pre.deleteCount = MAX_DELETE_COUNT
    /\ score = 0 /\ bestScore = pre.bestScore /\ bestScore > 0

\* a new session started in a powerup mode with a selected tile, by the button
C18_WitnessMode ==
    /\ last.op = "clickNewGame"
    /\ pre.powerupMode = "swap" /\ Len(pre.selectedTiles) = 1 /\ pre.gameOver

\* C19: the best score never decreases, whatever the sequence of moves,
\* undos, swaps, deletes and new sessions; once a turn has settled it is at
\* least the current score; an undo that lowers the score and a new session
\* that resets it leave the best score where it was.
C19_BestScoreMonotone ==
    /\ [](bestScore >= score)
    /\ [][bestScore' >= bestScore]_vars
    /\ []((UndoRequested \/ NewSessionStarted) => bestScore = pre.bestScore)

\* an undo that takes the score back below the best score a move has just set
C19_Witness ==
    /\ UndoPerformed /\ last.prevOp = "keyDirection" /\ last.prevMoved
    /\ score < pre.score /\ pre.bestScore = pre.score
    /\ bestScore = pre.bestScore /\ bestScore > score

\* a move that raises the best score
C19_WitnessRaise ==
    /\ MoveRequested /\ bestScore > pre.bestScore /\ bestScore = score

\* ------------------------------------------------------------------------
\* The session with the timer of handleKeyPress served: a callback given to
\* setTimeout (page.tsx:503) is run by the event loop once its delay is over
\* ------------------------------------------------------------------------
\* the session is followed from the states before mounting and from these
\* games in progress
FairSeeds ==
    { Idle(Gain124, 2, 1, 0), Idle(NearlyStuck, 2, 1, 1), Opening(4),
      togglePowerup(Opening(5), "swap"),
      togglePowerup(Idle(Gain512, 2, 1, 1), "delete") }

InitFair == Init /\ (~hasInitialized \/ Cur \in FairSeeds)

SpecFair == InitFair /\ [][Next]_vars /\ WF_vars(TimerFires)

\* C20: isProcessingMove is set by every accepted directional input; while
\* it is set every further directional input is rejected without changing
\* grid, score or history; and after every accepted directional input,
\* effective or not, it is eventually cleared.
C20_ReentrancyGuard ==
    /\ [][(steps' # steps /\ last'.op = "keyDirection" /\ last'.ran)
            => isProcessingMove']_vars
    /\ [][(steps' # steps /\ last'.op = "keyDirection" /\ isProcessingMove)
            => (~last'.ran /\ board' = board /\ score' = score
                /\ undoStack' = undoStack)]_vars
    /\ (isProcessingMove ~> ~isProcessingMove)

\* an arrow key that would have moved the grid, pressed while the guard set by
\* the previous arrow key was still up
C20_Witness ==
    /\ last.op = "keyDirection" /\ last.prevOp = "keyDirection"
    /\ pre.isProcessingMove /\ ~last.ran
    /\ moveBoard(pre.board, keyDirection(last.key)).moved
    /\ board = pre.board /\ isProcessingMove

\* the guard cleared after an arrow key that moved nothing
C20_WitnessCleared ==
    /\ MoveRequested /\ ~lastMove.moved /\ ~isProcessingMove /\ pendingTimers = 0

\* ------------------------------------------------------------------------
\* Escape, the grid's shape, terminal flags, tile clicks, modal input
\* ------------------------------------------------------------------------
\* C21: pressing Escape while the powerup mode is swap or delete (no move in
\* progress, no tutorial shown, session not lost) cancels the mode:
\* afterwards the mode is none and no tile is selected, with grid, score,
\* counters and history unchanged.
C21_EscapeCancels ==
    (/\ last.op = "keyEscape" /\ pre.powerupMode \in {"swap", "delete"}
     /\ ~pre.isProcessingMove /\ ~pre.showTutorial /\ ~pre.gameOver)
    => (powerupMode = "none" /\ selectedTiles = <<>> /\ CoreUnchanged)

RECURSIVE IsPowerOfTwo(_)
IsPowerOfTwo(v) == v = 2 \/ (v > 2 /\ v % 2 = 0 /\ IsPowerOfTwo(v \div 2))

\* b is GRID_SIZE rows of GRID_SIZE cells, each empty or a power of two >= 2
WellFormedGrid(b) ==
    /\ DOMAIN b = Idx
    /\ \A r \in Idx :
          /\ DOMAIN b[r] = Idx
          /\ \A c \in Idx : b[r][c] = Null \/ IsPowerOfTwo(b[r][c])

\* C22: in every reachable state the grid is 4 rows of 4 cells and every
\* non-empty cell holds a power of two that is at least 2; moves, spawns,
\* swaps, deletes, undos and new sessions preserve this.
C22_GridWellFormed == WellFormedGrid(board)

\* a move that merged two 1024 into a tile of 2048 and spawned a tile
C22_Witness ==
    /\ MoveRequested /\ lastMove.moved /\ lastMove.score = WINNING_NUMBER
    /\ isGameWon(board) /\ TileCount(board) = TileCount(lastMove.newBoard) + 1

\* C23: after every directional move that takes effect the terminal flags
\* are those of the grid after the spawn: Over is set exactly when that grid
\* is full with no adjacent equal pair, Won is set when it holds 2048; and a
\* set Won flag does not block a later directional move.
C23_TerminalFlagsAfterMove ==
    /\ (MoveRequested /\ lastMove.moved)
          => /\ gameOver <=> isGameOver(board)
             /\ isGameWon(board) => gameWon
    /\ (/\ last.op = "keyDirection" /\ pre.gameWon /\ ~pre.gameOver
        /\ ~pre.isProcessingMove /\ ~pre.showTutorial
        /\ pre.powerupMode = "none")
          => /\ last.ran
             /\ lastMove.moved => (board # pre.board /\ Len(undoStack) > 0
                                   /\ undoStack[Len(undoStack)] = preSnapshot)

\* a move whose spawned tile fills the last free cell of a grid with no pair
C23_Witness ==
    /\ MoveRequested /\ lastMove.moved
    /\ ~isGameOver(lastMove.newBoard) /\ isGameOver(board) /\ gameOver

\* a move that makes the 2048 tile
C23_WitnessWon ==
    /\ MoveRequested /\ lastMove.moved /\ ~pre.gameWon
    /\ isGameWon(board) /\ gameWon /\ ~gameOver

\* a move that takes effect in a session already won
C23_WitnessAfterWon ==
    /\ MoveRequested /\ lastMove.moved /\ pre.gameWon /\ board # pre.board

\* C24: a tile click that completes neither a swap nor a delete changes no
\* game state: a click with no powerup mode, a click on an empty cell, the
\* first (selecting) click in swap mode and a second click on the selected
\* cell (which only empties the selection) leave grid, score, history, the
\* three counters and the powerup mode unchanged.
C24_IdleTileClick ==
    (last.op = "clickTile" /\ ~SwapDone /\ ~DeleteDone)
    => /\ CoreUnchanged /\ powerupMode = pre.powerupMode
       /\ (pre.powerupMode = "none" \/ pre.board[last.row][last.col] = Null)
             => selectedTiles = pre.selectedTiles
       /\ (/\ pre.powerupMode = "swap" /\ pre.board[last.row][last.col] # Null
           /\ pre.selectedTiles = <<>>)
             => selectedTiles = << <<last.row, last.col>> >>
       /\ (/\ pre.powerupMode = "swap" /\ pre.board[last.row][last.col] # Null
           /\ pre.selectedTiles = << <<last.row, last.col>> >>)
             => selectedTiles = <<>>

\* the selected tile clicked again in swap mode
C24_Witness ==
    /\ last.op = "clickTile" /\ pre.powerupMode = "swap"
    /\ pre.selectedTiles = << <<last.row, last.col>> >>
    /\ selectedTiles = <<>> /\ powerupMode = "swap" /\ swapCount = pre.swapCount

\* the three other cases: no mode, an empty cell in delete mode, a first click
C24_WitnessNoMode ==
    /\ last.op = "clickTile" /\ pre.powerupMode = "none"
    /\ pre.board[last.row][last.col] # Null
C24_WitnessEmptyCell ==
    /\ last.op = "clickTile" /\ pre.powerupMode = "delete" /\ pre.deleteCount > 0
    /\ pre.board[last.row][last.col] = Null
C24_WitnessFirstClick ==
    /\ last.op = "clickTile" /\ pre.powerupMode = "swap" /\ pre.selectedTiles = <<>>
    /\ Len(selectedTiles) = 1

\* the number of non-empty cells of a line
FilledCount(line) == Cardinality({i \in 1..Len(line) : line[i] # Null})

RECURSIVE LineSum(_, _)
LineSum(line, n) == IF n = 0 THEN 0 ELSE line[n] + LineSum(line, n - 1)

\* C25: for any line, the number of non-empty cells after resolution is at
\* most the number before, the difference is the number of merges performed,
\* and each merge adds exactly its doubled value to the line's score (a line
\* with no merge scores 0).
C25_MergeCountConservation ==
    fnOp = "moveLine"
        => LET f      == PackedValues(fnIn)
               merges == MergeStarts(f)
               before == FilledCount(fnIn)
               after  == FilledCount(fnOut.newLine)
           IN  /\ after <= before
               /\ before - after = Cardinality(merges)
               /\ fnOut.score = SumOver(merges, f)
               /\ (before = after) => fnOut.score = 0
               /\ LineSum(fnOut.newLine, Len(fnOut.newLine)) = LineSum(fnIn, Len(fnIn))

\* a line resolved with two merges
C25_Witness ==
    /\ fnOp = "moveLine" /\ fnIn = <<2, 2, 4, 4>>
    /\ FilledCount(fnOut.newLine) = 2 /\ fnOut.score = 12

\* C26: while the welcome prompt or the tutorial is shown, keyboard input is
\* ignored: no key press changes the grid, score, history, counters or
\* terminal flags.
C26_ModalIgnoresKeys ==
    (last.key # "-" /\ (pre.showWelcome \/ pre.showTutorial))
    => (CoreUnchanged /\ gameWon = pre.gameWon /\ gameOver = pre.gameOver)

\* the same with the tutorial alone
C26_TutorialIgnoresKeys ==
    (last.key # "-" /\ pre.showTutorial)
    => (~last.ran /\ CoreUnchanged /\ gameWon = pre.gameWon /\ gameOver = pre.gameOver)

\* C27: in every reachable state, if Over is set then the grid is terminal
\* (no empty cell and no adjacent equal pair): no swap, delete or other
\* action leaves Over set on a grid that still has a legal move.
C27_OverMeansTerminal == gameOver => isGameOver(board)

\* C28: the session never rests in a stuck state that is not reported: after
\* any completed action (move, swap, delete, undo, new session), if the grid
\* is full with no adjacent equal pair then Over is set.
C28_TerminalMeansOver == isGameOver(board) => gameOver

\* ------------------------------------------------------------------------
\* C29 as stated: for every grid of empty cells and powers of two, the loss
\* check isGameOver is true exactly when moveBoard reports moved = false in
\* all four directions.
\* ------------------------------------------------------------------------
NoDirectionMoves(grid) == \A d \in Directions : ~moveBoard(grid, d).moved

C29_LossCheckAgreesWithMoves ==
    fnOp = "isGameOver" => (fnOut <=> NoDirectionMoves(fnIn))

\* C29 amended: for every grid of empty cells and powers of two that holds
\* at least one tile, isGameOver is true exactly when moveBoard reports
\* moved = false in all four directions.  (On the grid with no tile at all
\* no direction moves anything, and isGameOver is false because of the
\* empty cells.)
C29_LossCheckAgreesOnTiledGrids ==
    (fnOp = "isGameOver" /\ TileCount(fnIn) > 0)
        => (fnOut <=> NoDirectionMoves(fnIn))

C29_Witness ==
    /\ fnOp = "isGameOver"
    /\ TileCount(fnIn) > 0
    /\ fnOut = TRUE
    /\ NoDirectionMoves(fnIn)

C29_WitnessPartlyFilled ==
    /\ fnOp = "isGameOver"
    /\ TileCount(fnIn) \in 1..15
    /\ fnOut = FALSE
    /\ ~NoDirectionMoves(fnIn)

C29_WitnessFullWithPair ==
    /\ fnOp = "isGameOver"
    /\ TileCount(fnIn) = 16
    /\ fnOut = FALSE
    /\ ~NoDirectionMoves(fnIn)

\* ------------------------------------------------------------------------
\* C30: the selection is non-empty only in swap mode: in every reachable
\* state with powerupMode "none" or "delete", selectedTiles is empty, also
\* after the swap or delete mode was toggled off or switched with the
\* powerup buttons.
\* ------------------------------------------------------------------------
C30_SelectionOnlyInSwapMode ==
    powerupMode \in {"none", "delete"} => selectedTiles = <<>>

\* the same, for every way of leaving swap mode other than the two powerup
\* buttons
C30_SelectionClearedElsewhere ==
    (powerupMode \in {"none", "delete"} /\ last.op \notin {"clickSwap", "clickDelete"}
       /\ pre.powerupMode = "swap")
        => selectedTiles = <<>>

\* ------------------------------------------------------------------------
\* C31: every coordinate held in selectedTiles refers to a cell that is
\* non-empty in the current grid, so a completed swap always exchanges two
\* tiles and never moves a tile into an empty cell.
\* ------------------------------------------------------------------------
SelectionOnTiles(s) ==
    \A k \in 1..Len(s.selectedTiles) :
        s.board[s.selectedTiles[k][1]][s.selectedTiles[k][2]] # Null

C31_SelectionRefersToTiles ==
    /\ SelectionOnTiles(Cur)
    /\ SwapDone => /\ pre.board[pre.selectedTiles[1][1]][pre.selectedTiles[1][2]] # Null
                   /\ TileCount(board) = TileCount(pre.board)
                   /\ board[last.row][last.col] # Null

\* the same while the powerup mode is swap: the selection is made of tiles
\* as long as the mode it was made in lasts
C31_SelectionOnTilesInSwapMode ==
    powerupMode = "swap" /\ pre.powerupMode = "swap" => SelectionOnTiles(Cur)

====
